---- MODULE Spec2Model ----
(***************************************************************************)
(* A model of src/index.js: the date-format tokenizer                      *)
(* (dlib.dateFormatToArray), the mask derived from it                      *)
(* (dlib.dateFormatToMask), the duration formatter (dlib.toTimeString),    *)
(* the password generator (dlib.generatePassword) and the rectangle class  *)
(* (dlib.rect).                                                            *)
(*                                                                         *)
(* A JavaScript string is modelled as a sequence of one-character strings, *)
(* so that charAt, indexOf, substr, slice and concatenation act on it as   *)
(* they do in the source.                                                  *)
(***************************************************************************)
EXTENDS Integers, Sequences, FiniteSets, TLC

VARIABLES
  formatArg,     \* dateFormatToArray: the format string the caller passed
  format,        \* dateFormatToArray: the local `format`, the unscanned rest
  formatArray,   \* dateFormatToArray: the local `formatArray`
  pc,            \* dateFormatToArray: "off" | "while" | "returned"
  number,        \* toTimeString: the `number` argument
  optionsArg,    \* toTimeString: what the caller passes as `options`:
                 \*   "object" (the caller's own object, held in options),
                 \*   "omitted", "null", "defaults" (dlib.toTimeStringDefaults)
  options,       \* toTimeString: the caller's own options object
  toTimeStringDefaults,  \* dlib.toTimeStringDefaults
  locale,        \* the locale Number.prototype.toLocaleString formats for
  result,        \* toTimeString: what the call returned
  leader,        \* toTimeString: the branch of the cascade the call took
  tpc,           \* toTimeString: "off" | "ready" | "returned"
  calls,         \* toTimeString: the number of calls made so far
  history,       \* toTimeString: the calls made so far, each with its number,
                 \*   the policy it was given and what it returned
  maskFormat,    \* dateFormatToMask: the `format` argument
  mask,          \* dateFormatToMask: what the call returned
  mpc,           \* dateFormatToMask: "off" | "ready" | "returned"
  args,          \* generatePassword: the arguments, by parameter name
  availableCharacters,  \* generatePassword: the local array of that name
  passwordLength,  \* generatePassword: the local `length`
  char,          \* generatePassword: the local `char`
  addAfterPick,  \* generatePassword: the local `addAfterPick`
  password,      \* generatePassword: the local `password`
  gpc,           \* generatePassword: "off" | "while" | "returned"
  rect,          \* a dlib.rect instance: its fields _left, _right, _top,
                 \*   _bottom, _width, _height, _x and _y
  rpc            \* the instance: "off" | "constructed"

tokVars  == <<formatArg, format, formatArray, pc>>
timeVars == <<number, optionsArg, options, toTimeStringDefaults, locale,
              result, leader, tpc, calls, history>>
maskVars == <<maskFormat, mask, mpc>>
passVars == <<args, availableCharacters, passwordLength, char, addAfterPick, password, gpc>>
rectVars == <<rect, rpc>>
vars == <<formatArg, format, formatArray, pc, number, optionsArg, options,
          toTimeStringDefaults, locale, result, leader, tpc, calls, history,
          maskFormat, mask, mpc,
          args, availableCharacters, passwordLength, char, addAfterPick, password, gpc,
          rect, rpc>>

(***************************************************************************)
(* Bounds of the model.                                                    *)
(***************************************************************************)
MaxFormatLen == 5
MaxCalls == 3
ClassChars == 3
MaxLength == 2
MaxPushes == 3
MaxCoordinate == 3

(***************************************************************************)
(* JavaScript string primitives, on 0-based indices as in the source.      *)
(***************************************************************************)
RECURSIVE indexOfFrom(_, _, _)
indexOfFrom(str, ch, i) ==
  IF i > Len(str) THEN -1
  ELSE IF str[i] = ch THEN i - 1
  ELSE indexOfFrom(str, ch, i + 1)

\* String.prototype.indexOf(ch): the 0-based index of the first ch, or -1.
indexOf(str, ch) == indexOfFrom(str, ch, 1)

Min(a, b) == IF a < b THEN a ELSE b

\* String.prototype.substr(start, length), for start >= 0.
substr(str, start, length) ==
  IF length <= 0 \/ start >= Len(str) THEN <<>>
  ELSE SubSeq(str, start + 1, Min(Len(str), start + length))

\* String.prototype.slice(start), for start >= 0.
slice(str, start) ==
  IF start >= Len(str) THEN <<>> ELSE SubSeq(str, start + 1, Len(str))

\* String.prototype.charAt(0): "" (the empty sequence) on the empty string.
charAt0(str) == IF Len(str) = 0 THEN <<>> ELSE <<str[1]>>

(***************************************************************************)
(* The symbol table of dateFormatToArray, in the order the source lists    *)
(* it, and the sort the function applies to it on every call.              *)
(***************************************************************************)
tokens ==
  << <<"M">>, <<"M","o">>, <<"M","M">>, <<"M","M","M">>, <<"M","M","M","M">>,
     <<"Q">>, <<"Q","o">>,
     <<"D">>, <<"D","o">>, <<"D","D">>, <<"D","D","D">>, <<"D","D","D","o">>,
     <<"D","D","D","D">>,
     <<"d">>, <<"d","o">>, <<"d","d">>, <<"d","d","d">>, <<"d","d","d","d">>,
     <<"e">>, <<"E">>,
     <<"w">>, <<"w","o">>, <<"w","w">>, <<"W">>, <<"W","o">>, <<"W","W">>,
     <<"Y","Y">>, <<"Y","Y","Y","Y">>, <<"Y">>,
     <<"g","g">>, <<"g","g","g","g">>, <<"G","G">>, <<"G","G","G","G">>,
     <<"A">>, <<"a">>,
     <<"H">>, <<"H","H">>, <<"h">>, <<"h","h">>, <<"k">>, <<"k","k">>,
     <<"m">>, <<"m","m">>, <<"s">>, <<"s","s">>,
     <<"S">>, <<"S","S">>, <<"S","S","S">>,
     <<"Z">>, <<"Z","Z">>, <<"X">>, <<"x">> >>

LowerCase == <<"a","b","c","d","e","f","g","h","i","j","k","l","m",
               "n","o","p","q","r","s","t","u","v","w","x","y","z">>
UpperCase == <<"A","B","C","D","E","F","G","H","I","J","K","L","M",
               "N","O","P","Q","R","S","T","U","V","W","X","Y","Z">>

\* The alphabetic position of a letter, whatever its case (0: not a letter).
LetterRank(ch) ==
  IF \E i \in 1..26 : LowerCase[i] = ch \/ UpperCase[i] = ch
  THEN CHOOSE i \in 1..26 : LowerCase[i] = ch \/ UpperCase[i] = ch
  ELSE 0

IsUpper(ch) == \E i \in 1..26 : UpperCase[i] = ch

\* String.prototype.localeCompare on two letter strings of one length: the
\* letters decide first, alphabetically and whatever their case; between two
\* strings of the same letters the first difference of case decides, the
\* lower-case letter first.  The result is its sign: -1, 0 or 1.
localeCompare(a, b) ==
  LET n    == Min(Len(a), Len(b))
      prim == {i \in 1..n : LetterRank(a[i]) # LetterRank(b[i])}
      tert == {i \in 1..n : IsUpper(a[i]) # IsUpper(b[i])}
      first(S) == CHOOSE i \in S : \A j \in S : i <= j
  IN  IF prim # {}
      THEN IF LetterRank(a[first(prim)]) < LetterRank(b[first(prim)]) THEN -1 ELSE 1
      ELSE IF Len(a) # Len(b)
      THEN IF Len(a) < Len(b) THEN -1 ELSE 1
      ELSE IF tert # {}
      THEN IF IsUpper(b[first(tert)]) THEN -1 ELSE 1
      ELSE 0

\* The comparator handed to tokens.sort: longer symbols first, symbols of one
\* length in localeCompare order.
tokenCompare(a, b) ==
  IF Len(a) # Len(b) THEN Len(b) - Len(a) ELSE localeCompare(a, b)

tokenBefore(a, b) == tokenCompare(a, b) < 0

\* Mutant: the table used as listed, the sort left out.
sortedTokensUnsorted == tokens

\* tokens after tokens.sort(...).
sortedTokens == SortSeq(tokens, tokenBefore)

(***************************************************************************)
(* Elements of formatArray: {separator: text} or {token: symbol}.          *)
(***************************************************************************)
Separator(text) == [separator |-> text]
Token(symbol)   == [token |-> symbol]
IsSeparator(e)  == "separator" \in DOMAIN e
IsToken(e)      == "token" \in DOMAIN e

\* Mutant: a last separator is never appended to.
lastSeparatorNever(arr) == FALSE

\* _.last(formatArray).separator as a condition: the last element has a
\* separator property whose text is not the empty string.
lastSeparatorTruthy(arr) ==
  /\ Len(arr) > 0
  /\ IsSeparator(arr[Len(arr)])
  /\ arr[Len(arr)].separator # <<>>

(***************************************************************************)
(* One iteration of the while loop of dateFormatToArray.                   *)
(***************************************************************************)
\* Mutant: the literal run taken one character too long, "]" included.
bracketStepKeepsClose(fmt, arr) ==
  LET closeIndex == indexOf(fmt, "]")
  IN  IF charAt0(fmt) = <<"[">> /\ closeIndex > 0
      THEN [format      |-> slice(fmt, closeIndex + 1),
            formatArray |-> Append(arr, Separator(substr(fmt, 1, closeIndex)))]
      ELSE [format |-> fmt, formatArray |-> arr]

\* Mutant: an unclosed "[" takes the whole rest of the string as its literal.
bracketStepUnclosedSwallows(fmt, arr) ==
  LET closeIndex == indexOf(fmt, "]")
  IN  IF charAt0(fmt) = <<"[">> /\ closeIndex > 0
      THEN [format      |-> slice(fmt, closeIndex + 1),
            formatArray |-> Append(arr, Separator(substr(fmt, 1, closeIndex - 1)))]
      ELSE IF charAt0(fmt) = <<"[">>
      THEN [format |-> <<>>, formatArray |-> Append(arr, Separator(slice(fmt, 1)))]
      ELSE [format |-> fmt, formatArray |-> arr]

\* The bracket branch: a "[" first, closed by a "]" later in the string.
bracketStep(fmt, arr) ==
  LET closeIndex == indexOf(fmt, "]")
  IN  IF charAt0(fmt) = <<"[">> /\ closeIndex > 0
      THEN [format      |-> slice(fmt, closeIndex + 1),
            formatArray |-> Append(arr, Separator(substr(fmt, 1, closeIndex - 1)))]
      ELSE [format |-> fmt, formatArray |-> arr]

\* The for loop over the sorted table: the index of the first symbol equal to
\* the start of the string, or 0 when there is none.
matchIndex(fmt) ==
  LET hits == {i \in 1..Len(sortedTokens) :
                 sortedTokens[i] = substr(fmt, 0, Len(sortedTokens[i]))}
  IN  IF hits = {} THEN 0 ELSE CHOOSE i \in hits : \A j \in hits : i <= j

\* Mutant: the unmatched character is emitted and the string left as it was.
literalStepNoAdvance(fmt, arr) ==
  [format      |-> fmt,
   formatArray |-> Append(arr, Separator(substr(fmt, 0, 1)))]

\* The branch of an unmatched character: appended to a last separator of
\* non-empty text, a separator of its own otherwise.
literalStep(fmt, arr) ==
  [format      |-> slice(fmt, 1),
   formatArray |->
     IF lastSeparatorTruthy(arr)
     THEN [arr EXCEPT ![Len(arr)] =
             Separator(arr[Len(arr)].separator \o substr(fmt, 0, 1))]
     ELSE Append(arr, Separator(substr(fmt, 0, 1)))]

\* The token branch and the unmatched branch, run when text is left.
matchStep(fmt, arr) ==
  LET i == matchIndex(fmt)
  IN  IF Len(fmt) = 0 THEN [format |-> fmt, formatArray |-> arr]
      ELSE IF i # 0
      THEN [format      |-> slice(fmt, Len(sortedTokens[i])),
            formatArray |-> Append(arr, Token(sortedTokens[i]))]
      ELSE literalStep(fmt, arr)

\* The body of the while loop.
loopBody(fmt, arr) ==
  LET b == bracketStep(fmt, arr)
  IN  matchStep(b.format, b.formatArray)

\* The whole function, as the loop run to its end.
RECURSIVE runLoop(_, _)
runLoop(fmt, arr) ==
  IF Len(fmt) > 0
  THEN LET n == loopBody(fmt, arr) IN runLoop(n.format, n.formatArray)
  ELSE arr

\* Mutant: the array starts with a literal of empty text.
initialFormatArraySeeded == <<Separator(<<>>)>>

\* let formatArray = [];
initialFormatArray == <<>>

dateFormatToArray(fmt) == runLoop(fmt, initialFormatArray)

(***************************************************************************)
(* dlib.dateFormatToMask.  A mask element is a regular expression, named   *)
(* by its source, or a string.                                             *)
(***************************************************************************)
Regex(source) == [regex |-> source]
Text(string)  == [text |-> string]
IsRegex(e)    == "regex" \in DOMAIN e
IsText(e)     == "text" \in DOMAIN e

Digit  == Regex("\\d")
Letter == Regex("[A-z]")

\* What the callback handed to mask.map returns for one element, flattened
\* one level as _.flatten does: the elements of a returned array, or the one
\* value returned.  threw: the callback ended in an exception.
Returned(items) == [threw |-> FALSE, items |-> items]
Threw           == [threw |-> TRUE, items |-> <<>>]

\* default: return _.toString(token);  No `token` is declared in the scope
\* of the callback or of the module: evaluating it is a ReferenceError.
defaultCase(element) == Threw

\* The switch over element.token.  A return of several expressions joined by
\* commas (MMM, ddd, dd) returns the last of them alone.
tokenCase(element) ==
  LET t == element.token
  IN  CASE t \in {<<"d">>, <<"e">>, <<"E">>} -> Returned(<<Digit>>)
        [] t \in { <<"M">>, <<"M","M">>, <<"Q">>, <<"D">>, <<"D","D">>, <<"w">>,
                   <<"w","w">>, <<"W">>, <<"W","W">>, <<"Y","Y">>, <<"g","g">>,
                   <<"H">>, <<"H","H">>, <<"h">>, <<"h","h">>, <<"k">>, <<"k","k">>,
                   <<"m">>, <<"m","m">>, <<"s">>, <<"s","s">>, <<"S">>, <<"S","S">> }
             -> Returned(<<Digit, Digit>>)
        [] t \in {<<"D","D","D">>, <<"D","D","D","D">>, <<"S","S","S">>}
             -> Returned(<<Digit, Digit, Digit>>)
        [] t \in {<<"Y","Y","Y","Y">>, <<"g","g","g","g">>, <<"S","S","S","S">>}
             -> Returned(<<Digit, Digit, Digit, Digit>>)
        [] t \in {<<"X">>, <<"x">>} -> Returned(<<Regex("\\d+")>>)
        [] t \in { <<"M","o">>, <<"Q","o">>, <<"D","o">>, <<"D","D","D","o">>,
                   <<"d","o">>, <<"w","o">>, <<"W","o">> }
             -> Returned(<<Digit, Digit, Letter, Letter>>)
        [] t \in {<<"M","M","M">>, <<"d","d","d">>} -> Returned(<<Letter>>)
        [] t \in {<<"M","M","M","M">>, <<"d","d","d","d">>, <<"Z">>, <<"z">>}
             -> Returned(<<Regex("\\w")>>)
        [] t = <<"d","d">> -> Returned(<<Letter>>)
        [] t = <<"A">> -> Returned(<<Regex("AM|PM")>>)
        [] t = <<"a">> -> Returned(<<Regex("am|pm")>>)
        [] OTHER -> defaultCase(element)

\* Mutant: a separator contributes one string per character of its text.
maskElementSeparatorPerCharacter(element) ==
  IF IsToken(element) THEN tokenCase(element)
  ELSE Returned([i \in 1..Len(element.separator) |-> Text(<<element.separator[i]>>)])

\* The callback of mask.map: a token by the switch, a separator as its text.
maskElement(element) ==
  IF IsToken(element) THEN tokenCase(element)
  ELSE Returned(<<Text(element.separator)>>)

\* mask.map(...) and _.flatten: the contributions in order, up to a throw.
RECURSIVE maskMap(_)
maskMap(arr) ==
  IF arr = <<>> THEN Returned(<<>>)
  ELSE LET first == maskElement(Head(arr))
           rest  == maskMap(Tail(arr))
       IN  IF first.threw \/ rest.threw THEN Threw
           ELSE Returned(first.items \o rest.items)

MaskResult(items) == [type |-> "mask", value |-> items]
MaskUndefined     == [type |-> "undefined", value |-> <<>>]
MaskThrown        == [type |-> "throw", value |-> <<>>]
MaskNone          == [type |-> "none", value |-> <<>>]

\* dlib.dateFormatToMask(format), for a string: undefined on the empty string.
dateFormatToMask(fmt) ==
  IF fmt = <<>> THEN MaskUndefined
  ELSE LET m == maskMap(dateFormatToArray(fmt))
       IN  IF m.threw THEN MaskThrown ELSE MaskResult(m.items)

(***************************************************************************)
(* dlib.generatePassword.  A character is a one-character string, a        *)
(* blanked slot of the array the empty string.  Of each character class    *)
(* the model keeps the first ClassChars characters.                        *)
(***************************************************************************)
lowerCaseCharacters ==
  <<"a", "b", "c", "d", "e", "f", "g", "h", "i", "j", "k", "l", "m",
     "n", "o", "p", "q", "r", "s", "t", "u", "v", "w", "x", "y", "z">>
upperCaseCharacters ==
  <<"A", "B", "C", "D", "E", "F", "G", "H", "I", "J", "K", "L", "M",
     "N", "O", "P", "Q", "R", "S", "T", "U", "V", "W", "X", "Y", "Z">>
numbersCharacters == <<"0", "1", "2", "3", "4", "5", "7", "8", "9">>
symbolsCharacters == <<"!", "@", "#", "$", "%", "&", "*">>

Kept(characters) == SubSeq(characters, 1, Min(ClassChars, Len(characters)))

\* The characters /[0OoiIlL1]/g matches.
Confusing == {"0", "O", "o", "i", "I", "l", "L", "1"}

\* availableCharacters.replace(/[0OoiIlL1]/g, "")
withoutConfusing(characters) == SelectSeq(characters, LAMBDA c : c \notin Confusing)

\* The array before the loop: the classes asked for, in the order of the
\* source, without the confusing characters when excludeConfusing.
initialAvailableCharacters(a) ==
  LET all == (IF a.lowerCase THEN Kept(lowerCaseCharacters) ELSE <<>>)
             \o (IF a.upperCase THEN Kept(upperCaseCharacters) ELSE <<>>)
             \o (IF a.numbers THEN Kept(numbersCharacters) ELSE <<>>)
             \o (IF a.symbols THEN Kept(symbolsCharacters) ELSE <<>>)
  IN  IF a.excludeConfusing THEN withoutConfusing(all) ELSE all

\* dlib.random(min, max): an integer of min..max.
random(min, max) == min..max

\* minLength === maxLength ? maxLength : this.random(minLength, maxLength)
lengthChoices(a) ==
  IF a.minLength = a.maxLength THEN {a.maxLength} ELSE random(a.minLength, a.maxLength)

\* The value undefined of char and addAfterPick.
Nil == "undefined"

\* _.isNil(value)
isNilValue(value) == value = Nil

\* while (password.length < length || availableCharacters.length < 1)
loopCondition == Len(password) < passwordLength \/ Len(availableCharacters) < 1

\* The body of the loop for the random index picked (0-based): the slot is
\* blanked by splice(index, 1, ""), the character held back is pushed, the
\* character picked is added to the password and then held back or pushed.
pickAt(index) ==
  LET picked   == availableCharacters[index + 1]
      spliced  == [availableCharacters EXCEPT ![index + 1] = ""]
      restored == IF ~isNilValue(addAfterPick) THEN Append(spliced, addAfterPick)
                  ELSE spliced
  IN  [char         |-> picked,
       password     |-> IF picked = "" THEN password ELSE Append(password, picked),
       addAfterPick |-> IF args.allowDuplicates /\ args.preventRepeatingCharacters
                        THEN picked ELSE Nil,
       availableCharacters |->
         IF args.allowDuplicates /\ ~args.preventRepeatingCharacters
         THEN Append(restored, picked) ELSE restored]

(***************************************************************************)
(* dlib.toTimeString.  A number argument is a record: kind "number" with   *)
(* its sign, its whole milliseconds and whether half a millisecond is      *)
(* added (whole + 0.5), or one of the values that are no finite number.    *)
(***************************************************************************)
Num(neg, whole, half) == [kind |-> "number", neg |-> neg, whole |-> whole, half |-> half]
NotNum(kind)          == [kind |-> kind, neg |-> FALSE, whole |-> 0, half |-> FALSE]

\* What a call returns, or how it ends.
StringResult(text) == [type |-> "string", value |-> text]
Undefined          == [type |-> "undefined", value |-> <<>>]
Thrown             == [type |-> "throw", value |-> <<>>]
NoResult           == [type |-> "none", value |-> <<>>]

showTimeUnit == [always |-> "always", nonZero |-> "nonZero", never |-> "never"]

ShowKeys   == {"showDays", "showHours", "showMinutes", "showSeconds", "showMilliseconds"}
FlagKeys   == {"padDays", "padHours", "padMinutes", "padSeconds", "formatNumber"}
OptionKeys == ShowKeys \cup FlagKeys

\* dlib.toTimeStringDefaults as the module sets it.
toTimeStringDefaultsInitial ==
  [k \in OptionKeys |->
     CASE k = "showMilliseconds" -> "never"
       [] k \in ShowKeys         -> "nonZero"
       [] k = "formatNumber"     -> TRUE
       [] OTHER                  -> FALSE]

\* The object without properties, {}.
EmptyObject == [k \in {} |-> FALSE]

\* _.defaults(object, source): every property of source that object lacks
\* is assigned to object; the properties object has are kept.
defaults(object, source) ==
  [k \in (DOMAIN object) \cup (DOMAIN source) |->
     IF k \in DOMAIN object THEN object[k] ELSE source[k]]

\* options.<key> of a show property ("undefined" when the object lacks it).
show(o, key) == IF key \in DOMAIN o THEN o[key] ELSE "undefined"

\* options.<key> of a flag as a condition: the property is there and true.
flag(o, key) == key \in DOMAIN o /\ o[key] = TRUE

DigitChars == <<"0", "1", "2", "3", "4", "5", "6", "7", "8", "9">>

\* _.toString(n) of a non-negative integer: its decimal digits.
RECURSIVE toString(_)
toString(n) ==
  IF n < 10 THEN <<DigitChars[n + 1]>>
  ELSE toString(n \div 10) \o <<DigitChars[(n % 10) + 1]>>

\* _.toString(x) of whole + 0.5 or of whole.
numberToString(whole, half) ==
  IF half THEN toString(whole) \o <<".", "5">> ELSE toString(whole)

\* _.padStart(string, length, "0").
RECURSIVE padStart(_, _)
padStart(str, length) ==
  IF Len(str) >= length THEN str ELSE padStart(<<"0">> \o str, length)

\* The character a locale puts between groups of three digits.
GroupSeparator(loc) == IF loc = "de-DE" THEN "." ELSE ","

\* n.toLocaleString() of a non-negative integer: its digits in groups of three.
RECURSIVE toLocaleString(_, _)
toLocaleString(n, loc) ==
  IF n < 1000 THEN toString(n)
  ELSE toLocaleString(n \div 1000, loc) \o <<GroupSeparator(loc)>>
       \o padStart(toString(n % 1000), 3)

\* _.isNil(value): null or undefined.
isNil(num) == num.kind \in {"null", "undefined"}

\* _.isNaN(value): the number NaN.
isNaN(num) == num.kind = "NaN"

\* _.isFinite(value): a number, and neither NaN nor an infinity.
isFinite(num) == num.kind = "number"

\* Mutant: only null, undefined and NaN are turned away.
notComputableFiniteUnchecked(num) == isNil(num) \/ isNaN(num)

\* _.isNil(number) || _.isNaN(number) || !_.isFinite(number)
notComputable(num) == isNil(num) \/ isNaN(num) \/ ~isFinite(num)

\* Mutant: the leading unit is reduced modulo 60 like a unit below a leader.
leadTextReduced(value, o, padKey, loc) ==
  LET text == IF flag(o, "formatNumber") THEN toLocaleString(value % 60, loc)
              ELSE toString(value % 60)
  IN  IF flag(o, padKey) THEN padStart(text, 2) ELSE text

\* The numeral of the leading unit: grouped when options.formatNumber, padded
\* to two characters when the unit's pad flag is set.
leadText(value, o, padKey, loc) ==
  LET text == IF flag(o, "formatNumber") THEN toLocaleString(value, loc)
              ELSE toString(value)
  IN  IF flag(o, padKey) THEN padStart(text, 2) ELSE text

\* Mutant: the milliseconds are joined with ":" like the units above them.
appendMillisecondsColon(res, o, x) ==
  IF show(o, "showMilliseconds") # showTimeUnit.never
  THEN res \o <<":">> \o padStart(toString(x), 3)
  ELSE res

\* The nested ifs that append the units below the leader.
appendMilliseconds(res, o, x) ==
  IF show(o, "showMilliseconds") # showTimeUnit.never
  THEN res \o <<".">> \o padStart(toString(x), 3)
  ELSE res

\* Mutant: the units below seconds are appended whatever showSeconds says.
appendSecondsUnnested(res, o, s, x) ==
  IF show(o, "showSeconds") # showTimeUnit.never
  THEN appendMilliseconds(res \o <<":">> \o padStart(toString(s), 2), o, x)
  ELSE appendMilliseconds(res, o, x)

appendSeconds(res, o, s, x) ==
  IF show(o, "showSeconds") # showTimeUnit.never
  THEN appendMilliseconds(res \o <<":">> \o padStart(toString(s), 2), o, x)
  ELSE res

\* Mutant: the minutes below a leader are padded only when padMinutes is set.
appendMinutesPadByFlag(res, o, m, s, x) ==
  IF show(o, "showMinutes") # showTimeUnit.never
  THEN appendSeconds(res \o <<":">> \o
                       (IF flag(o, "padMinutes") THEN padStart(toString(m), 2)
                        ELSE toString(m)), o, s, x)
  ELSE res

appendMinutes(res, o, m, s, x) ==
  IF show(o, "showMinutes") # showTimeUnit.never
  THEN appendSeconds(res \o <<":">> \o padStart(toString(m), 2), o, s, x)
  ELSE res

appendHours(res, o, h, m, s, x) ==
  IF show(o, "showHours") # showTimeUnit.never
  THEN appendMinutes(res \o <<":">> \o padStart(toString(h), 2), o, m, s, x)
  ELSE res

\* The test of the days branch.  options.showDays.nonZero reads the property
\* "nonZero" of the string set as showDays, which is undefined, so that its
\* disjunct never holds; on a showDays of null the read throws.
showDaysTest(o, d) ==
  \/ show(o, "showDays") = showTimeUnit.always
  \/ (FALSE /\ d > 0)

\* Mutant: a unit set to nonZero is shown whatever the magnitude.
showTestAnyMagnitude(o, key, positive) ==
  \/ show(o, key) = showTimeUnit.always
  \/ show(o, key) = showTimeUnit.nonZero

\* The test of the hours, minutes, seconds and milliseconds branches.
showTest(o, key, positive) ==
  \/ show(o, key) = showTimeUnit.always
  \/ (show(o, key) = showTimeUnit.nonZero /\ positive)

\* Mutant: the last branch renders nothing when milliseconds are not shown.
millisecondsBranchEmpty(whole, half, o) ==
  IF showTest(o, "showMilliseconds", whole > 0 \/ half)
  THEN <<"0", ".">> \o padStart(numberToString(whole, half), 3)
  ELSE <<>>

\* The last branch: x = number, not reduced and not floored.
millisecondsBranch(whole, half, o) ==
  IF showTest(o, "showMilliseconds", whole > 0 \/ half)
  THEN <<"0", ".">> \o padStart(numberToString(whole, half), 3)
  ELSE <<"0">>

\* Mutant: the units below the leader carry the whole magnitude in their unit,
\* not reduced modulo the next unit up.
cascadeUnreduced(whole, half, o, loc) ==
  LET d  == whole \div (1000 * 60 * 60 * 24)
      hh == whole \div (1000 * 60 * 60)
      mm == whole \div (1000 * 60)
      ss == whole \div 1000
      x  == whole % 1000
  IN  IF showDaysTest(o, d)
      THEN [leader |-> "days",
            text   |-> appendHours(leadText(d, o, "padDays", loc), o, hh, mm, ss, x)]
      ELSE IF showTest(o, "showHours", hh > 0)
      THEN [leader |-> "hours",
            text   |-> appendMinutes(leadText(hh, o, "padhours", loc), o, mm, ss, x)]
      ELSE IF showTest(o, "showMinutes", mm > 0)
      THEN [leader |-> "minutes",
            text   |-> appendSeconds(leadText(mm, o, "padMinutes", loc), o, ss, x)]
      ELSE IF showTest(o, "showSeconds", ss > 0)
      THEN [leader |-> "seconds",
            text   |-> appendMilliseconds(leadText(ss, o, "padSeconds", loc), o, x)]
      ELSE [leader |-> "milliseconds",
            text   |-> millisecondsBranch(whole, half, o)]

\* The cascade over the magnitude (whole + 0.5 when half), options merged:
\* the branch taken and the text built, before the sign.
cascade(whole, half, o, loc) ==
  LET d  == whole \div (1000 * 60 * 60 * 24)
      hh == whole \div (1000 * 60 * 60)
      mm == whole \div (1000 * 60)
      ss == whole \div 1000
      h  == (whole \div (1000 * 60 * 60)) % 24
      m  == (whole \div (1000 * 60)) % 60
      s  == (whole \div 1000) % 60
      x  == whole % 1000
  IN  IF showDaysTest(o, d)
      THEN [leader |-> "days",
            text   |-> appendHours(leadText(d, o, "padDays", loc), o, h, m, s, x)]
      ELSE IF showTest(o, "showHours", hh > 0)
      THEN [leader |-> "hours",
            text   |-> appendMinutes(leadText(hh, o, "padhours", loc), o, m, s, x)]
      ELSE IF showTest(o, "showMinutes", mm > 0)
      THEN [leader |-> "minutes",
            text   |-> appendSeconds(leadText(mm, o, "padMinutes", loc), o, s, x)]
      ELSE IF showTest(o, "showSeconds", ss > 0)
      THEN [leader |-> "seconds",
            text   |-> appendMilliseconds(leadText(ss, o, "padSeconds", loc), o, x)]
      ELSE [leader |-> "milliseconds",
            text   |-> millisecondsBranch(whole, half, o)]

\* Mutant: the sign is kept off the result.
signedUnsigned(isNegative, text) == text

\* (isNegative ? "-" : "") + result
signed(isNegative, text) == IF isNegative THEN <<"-">> \o text ELSE text

\* Mutant: the options are merged into the shared defaults object, which
\* then serves as the policy, and the object passed is left as it was.
toTimeStringBodyMergesIntoDefaults(num, opts, isNull, dflt, loc) ==
  LET merged     == defaults(opts, dflt)
      isNegative == num.neg
      c          == cascade(num.whole, num.half, merged, loc)
  IN  IF isNull
      THEN [options |-> opts, shared |-> dflt, leader |-> "none", result |-> Thrown]
      ELSE IF show(merged, "showDays") = "null"
      THEN [options |-> opts, shared |-> merged, leader |-> "none", result |-> Thrown]
      ELSE [options |-> opts, shared |-> merged, leader |-> c.leader,
            result  |-> StringResult(signed(isNegative, c.text))]

\* The function after its guard, on the object bound to `options` (isNull:
\* the caller passed null): the merged object it leaves in place of that
\* object, the shared defaults object as it leaves it (_.defaults writes to
\* its first argument only), the branch taken and what is returned.
toTimeStringBody(num, opts, isNull, dflt, loc) ==
  LET merged     == defaults(opts, dflt)
      isNegative == num.neg
      c          == cascade(num.whole, num.half, merged, loc)
  IN  IF isNull
      THEN [options |-> opts, shared |-> dflt, leader |-> "none", result |-> Thrown]
      ELSE IF show(merged, "showDays") = "null"
      THEN [options |-> merged, shared |-> dflt, leader |-> "none", result |-> Thrown]
      ELSE [options |-> merged, shared |-> dflt, leader |-> c.leader,
            result  |-> StringResult(signed(isNegative, c.text))]

\* dlib.toTimeString(number, options).
toTimeString(num, opts, isNull, dflt, loc) ==
  IF notComputable(num)
  THEN [options |-> opts, shared |-> dflt, leader |-> "none", result |-> Undefined]
  ELSE toTimeStringBody(num, opts, isNull, dflt, loc)

(***************************************************************************)
(* The format strings a call is made with.                                 *)
(***************************************************************************)
FormatAlphabet == {"[", "]", "M", "o"}

RECURSIVE StringsUpTo(_, _)
StringsUpTo(A, n) ==
  IF n = 0 THEN {<<>>}
  ELSE LET shorter == StringsUpTo(A, n - 1)
       IN  shorter \cup {Append(s, c) : s \in {t \in shorter : Len(t) = n - 1}, c \in A}

NamedFormats ==
  { <<"[","Y","e","a","r","]",":"," ","Y","Y","Y","Y">>,
    <<"M","M">>,
    <<"Y","Y","Y","Y","-","M","M","-","D","D">>,
    <<"[","a","]","[","M","M","]">>,
    <<"D","D","o">>,
    <<"[","]","-">> }

FormatInputs == StringsUpTo(FormatAlphabet, MaxFormatLen) \cup NamedFormats

(***************************************************************************)
(* The arguments a call of toTimeString is made with.                      *)
(***************************************************************************)
Magnitudes == {0, 500, 5000, 61000, 3661000, 60000000, 90061000}

NumberInputs ==
  {Num(FALSE, w, FALSE) : w \in Magnitudes}
  \cup {Num(TRUE, w, FALSE) : w \in Magnitudes \ {0}}
  \cup {Num(FALSE, 0, TRUE), Num(TRUE, 0, TRUE), Num(FALSE, 1500, TRUE)}
  \cup {NotNum(k) : k \in {"NaN", "null", "undefined", "Infinity", "-Infinity", "string"}}

ShowValues == {"always", "nonZero", "never"}

\* Objects that set every property: each show policy, the pad flags all set
\* or all clear, formatNumber set or clear.
FullOptions ==
  { [k \in OptionKeys |->
       CASE k = "showDays"         -> sd
         [] k = "showHours"        -> sh
         [] k = "showMinutes"      -> sm
         [] k = "showSeconds"      -> ss
         [] k = "showMilliseconds" -> sx
         [] k = "formatNumber"     -> fn
         [] OTHER                  -> pad] :
      sd \in ShowValues, sh \in ShowValues, sm \in ShowValues,
      ss \in ShowValues, sx \in ShowValues, fn \in BOOLEAN, pad \in BOOLEAN }

\* Objects that set some properties only, and one whose showDays is null.
PartialOptions ==
  { EmptyObject,
    [showMilliseconds |-> "always"],
    [showDays |-> "always", showHours |-> "never"],
    [padSeconds |-> TRUE],
    [showDays |-> "null"] }

OptionsInputs == FullOptions \cup PartialOptions

\* The state of the call that is not being made.
(***************************************************************************)
(* dlib.rect.  A JavaScript value handed to the class is a number, NaN or  *)
(* an object with the fields of a DOMRect.                                 *)
(***************************************************************************)
JsNumber(n)      == [type |-> "number", nan |-> FALSE, value |-> n]
NaN              == [type |-> "number", nan |-> TRUE, value |-> 0]
JsObject(fields) == [type |-> "object", fields |-> fields]

\* a + b and a - b on numbers: NaN when either is NaN.
plus(a, b)  == IF a.nan \/ b.nan THEN NaN ELSE JsNumber(a.value + b.value)
minus(a, b) == IF a.nan \/ b.nan THEN NaN ELSE JsNumber(a.value - b.value)

\* a === b on numbers: NaN equals nothing, itself included.
strictEquals(a, b) == ~a.nan /\ ~b.nan /\ a.value = b.value

\* if (v): an object is truthy, a number unless it is 0 or NaN.
truthy(v) == v.type = "object" \/ (~v.nan /\ v.value # 0)

\* parseFloat(v): the number itself, NaN for an object ("[object Object]").
parseFloat(v) == IF v.type = "number" THEN v ELSE NaN

\* set(top, right, bottom, left, x, y): the fields it assigns.  With an
\* object as first argument each field of the object that is truthy replaces
\* the argument of its name.
set(top, right, bottom, left, x, y) ==
  LET isObject == top.type = "object"
      left1    == IF isObject /\ truthy(top.fields.left) THEN top.fields.left ELSE left
      right1   == IF isObject /\ truthy(top.fields.right) THEN top.fields.right ELSE right
      bottom1  == IF isObject /\ truthy(top.fields.bottom) THEN top.fields.bottom ELSE bottom
      x1       == IF isObject /\ truthy(top.fields.x) THEN top.fields.x ELSE x
      y1       == IF isObject /\ truthy(top.fields.y) THEN top.fields.y ELSE y
      top1     == IF isObject /\ truthy(top.fields.top) THEN top.fields.top ELSE top
  IN  [_left   |-> parseFloat(left1),
       _right  |-> parseFloat(right1),
       _top    |-> parseFloat(top1),
       _bottom |-> parseFloat(bottom1),
       _width  |-> minus(parseFloat(right1), parseFloat(left1)),
       _height |-> minus(parseFloat(bottom1), parseFloat(top1)),
       _x      |-> parseFloat(x1),
       _y      |-> parseFloat(y1)]

\* The setters of the eight properties.
setLeft(r, value)   == [r EXCEPT !._left = value, !._width = minus(r._right, value)]
setRight(r, value)  == [r EXCEPT !._right = value, !._width = minus(value, r._left)]
setTop(r, value)    == [r EXCEPT !._top = value, !._height = minus(r._bottom, value)]
setBottom(r, value) == [r EXCEPT !._bottom = value, !._height = minus(value, r._top)]
setWidth(r, value)  == [r EXCEPT !._width = value, !._right = plus(r._left, value)]
setHeight(r, value) == [r EXCEPT !._height = value, !._bottom = plus(r._top, value)]
setX(r, value) ==
  [r EXCEPT !._left = value, !._right = plus(value, r._width), !._x = value]
setY(r, value) ==
  [r EXCEPT !._top = value, !._bottom = plus(value, r._height), !._y = value]

NoRect == set(JsNumber(0), JsNumber(0), JsNumber(0), JsNumber(0), JsNumber(0), JsNumber(0))

RectOff ==
  /\ rect = NoRect
  /\ rpc = "off"

NoArguments ==
  [lowerCase |-> FALSE, upperCase |-> FALSE, numbers |-> FALSE, symbols |-> FALSE,
   minLength |-> 0, maxLength |-> 0, allowDuplicates |-> FALSE,
   preventRepeatingCharacters |-> FALSE, excludeConfusing |-> FALSE]

PasswordOff ==
  /\ args = NoArguments
  /\ availableCharacters = <<>>
  /\ passwordLength = 0
  /\ char = Nil
  /\ addAfterPick = Nil
  /\ password = <<>>
  /\ gpc = "off"

TokenizerOff ==
  /\ formatArg = <<>>
  /\ format = <<>>
  /\ formatArray = <<>>
  /\ pc = "off"

MaskOff ==
  /\ maskFormat = <<>>
  /\ mask = MaskNone
  /\ mpc = "off"

TimeStringOff ==
  /\ number = NotNum("undefined")
  /\ optionsArg = "omitted"
  /\ options = EmptyObject
  /\ toTimeStringDefaults = toTimeStringDefaultsInitial
  /\ locale = "en-US"
  /\ result = NoResult
  /\ leader = "none"
  /\ tpc = "off"
  /\ calls = 0
  /\ history = {}

(***************************************************************************)
(* The tokenizer as a state machine: a call, the loop's iterations, the    *)
(* return.                                                                 *)
(***************************************************************************)
InitTokenizer ==
  /\ formatArg \in FormatInputs
  /\ format = formatArg
  /\ formatArray = initialFormatArray
  /\ pc = "while"
  /\ TimeStringOff
  /\ MaskOff
  /\ PasswordOff
  /\ RectOff

\* while (format.length > 0) { ... }: one iteration.
WhileIteration ==
  /\ pc = "while"
  /\ Len(format) > 0
  /\ LET n == loopBody(format, formatArray)
     IN  /\ format' = n.format
         /\ formatArray' = n.formatArray
  /\ UNCHANGED <<formatArg, pc>>
  /\ UNCHANGED timeVars
  /\ UNCHANGED maskVars
  /\ UNCHANGED passVars
  /\ UNCHANGED rectVars

\* return formatArray;
ReturnFormatArray ==
  /\ pc = "while"
  /\ Len(format) = 0
  /\ pc' = "returned"
  /\ UNCHANGED <<formatArg, format, formatArray>>
  /\ UNCHANGED timeVars
  /\ UNCHANGED maskVars
  /\ UNCHANGED passVars
  /\ UNCHANGED rectVars

NextTokenizer == WhileIteration \/ ReturnFormatArray

SpecTokenizer == InitTokenizer /\ [][NextTokenizer]_vars

SpecTokenizerFair == SpecTokenizer /\ WF_vars(NextTokenizer)

(***************************************************************************)
(* toTimeString as a state machine: the arguments, then the call.          *)
(***************************************************************************)
InitTimeString ==
  /\ number \in NumberInputs
  /\ \/ optionsArg = "object" /\ options \in OptionsInputs
     \/ optionsArg \in {"omitted", "null", "defaults"} /\ options = EmptyObject
  /\ toTimeStringDefaults = toTimeStringDefaultsInitial
  /\ locale \in {"en-US", "de-DE"}
  /\ result = NoResult
  /\ leader = "none"
  /\ tpc = "ready"
  /\ calls = 0
  /\ history = {}
  /\ TokenizerOff
  /\ MaskOff
  /\ PasswordOff
  /\ RectOff

\* The object bound to the parameter `options`: the caller's, a fresh {} for an
\* omitted argument, the shared defaults object when the caller passes it.
boundOptions ==
  CASE optionsArg = "object"   -> options
    [] optionsArg = "defaults" -> toTimeStringDefaults
    [] OTHER                   -> EmptyObject

\* The policy the caller gives: the object passed, over the documented
\* defaults.
givenPolicy == defaults(boundOptions, toTimeStringDefaultsInitial)

\* One call of dlib.toTimeString(number, options).  When the object passed is
\* the shared defaults object, what the call leaves in the one is in the other.
ToTimeStringCall ==
  /\ tpc = "ready"
  /\ LET r == toTimeString(number, boundOptions, optionsArg = "null",
                           toTimeStringDefaults, locale)
     IN  /\ result' = r.result
         /\ leader' = r.leader
         /\ options' = IF optionsArg = "object" THEN r.options ELSE options
         /\ toTimeStringDefaults' =
              IF optionsArg = "defaults" /\ r.shared = toTimeStringDefaults
              THEN r.options ELSE r.shared
         /\ history' = history \cup
              {[number |-> number, policy |-> givenPolicy, result |-> r.result]}
  /\ tpc' = "returned"
  /\ calls' = calls + 1
  /\ UNCHANGED <<number, optionsArg, locale>>
  /\ UNCHANGED tokVars
  /\ UNCHANGED maskVars
  /\ UNCHANGED passVars
  /\ UNCHANGED rectVars

NextTimeString == ToTimeStringCall

SpecTimeString == InitTimeString /\ [][NextTimeString]_vars

(***************************************************************************)
(* Several calls of toTimeString in a row by a caller that keeps one       *)
(* options object: it passes that object again, replaces it by another,    *)
(* omits the argument or passes the shared defaults object.                *)
(***************************************************************************)
CallNumbers == {Num(FALSE, 500, FALSE), Num(TRUE, 90061000, FALSE)}

CallOptions ==
  { EmptyObject,
    [showMilliseconds |-> "always"],
    [showDays |-> "always", padDays |-> TRUE] }

InitTimeStringCalls ==
  /\ number \in CallNumbers
  /\ options \in CallOptions
  /\ optionsArg \in {"object", "omitted", "defaults"}
  /\ toTimeStringDefaults = toTimeStringDefaultsInitial
  /\ locale \in {"en-US", "de-DE"}
  /\ result = NoResult
  /\ leader = "none"
  /\ tpc = "ready"
  /\ calls = 0
  /\ history = {}
  /\ TokenizerOff
  /\ MaskOff
  /\ PasswordOff
  /\ RectOff

\* The caller sets up its next call.
NextArguments ==
  /\ tpc = "returned"
  /\ calls < MaxCalls
  /\ number' \in CallNumbers
  /\ optionsArg' \in {"object", "omitted", "defaults"}
  /\ \/ options' = options
     \/ options' \in CallOptions
  /\ result' = NoResult
  /\ leader' = "none"
  /\ tpc' = "ready"
  /\ UNCHANGED <<toTimeStringDefaults, locale, calls, history>>
  /\ UNCHANGED tokVars
  /\ UNCHANGED maskVars
  /\ UNCHANGED passVars
  /\ UNCHANGED rectVars

NextTimeStringCalls == ToTimeStringCall \/ NextArguments

SpecTimeStringCalls == InitTimeStringCalls /\ [][NextTimeStringCalls]_vars

(***************************************************************************)
(* dateFormatToMask as a state machine: the argument, then the call.       *)
(***************************************************************************)
MaskAlphabet == {"[", "]", "Y", "M", "d"}

NamedMaskFormats ==
  { <<"G","G">>, <<"G","G","G","G">>, <<"Z","Z">>, <<"Z">>,
    <<"Y","Y","Y","Y","-","M","M","-","D","D">>,
    <<"[","Y","e","a","r","]",":"," ","Y","Y","Y","Y">>,
    <<"H","H",":","m","m",":","s","s"," ","A">>,
    <<"d","d","d"," ","M","M","M"," ","D","o">> }

MaskInputs == StringsUpTo(MaskAlphabet, MaxFormatLen) \cup NamedMaskFormats

InitMask ==
  /\ maskFormat \in MaskInputs
  /\ mask = MaskNone
  /\ mpc = "ready"
  /\ TokenizerOff
  /\ TimeStringOff
  /\ PasswordOff
  /\ RectOff

\* One call of dlib.dateFormatToMask(format).
DateFormatToMaskCall ==
  /\ mpc = "ready"
  /\ mask' = dateFormatToMask(maskFormat)
  /\ mpc' = "returned"
  /\ UNCHANGED maskFormat
  /\ UNCHANGED tokVars
  /\ UNCHANGED timeVars
  /\ UNCHANGED passVars
  /\ UNCHANGED rectVars

NextMask == DateFormatToMaskCall

SpecMask == InitMask /\ [][NextMask]_vars

(***************************************************************************)
(* generatePassword as a state machine: a call, the iterations of its      *)
(* loop, the return.                                                       *)
(***************************************************************************)
ClassInputs ==
  { [lowerCase |-> FALSE, upperCase |-> FALSE, numbers |-> FALSE, symbols |-> FALSE],
    [lowerCase |-> FALSE, upperCase |-> FALSE, numbers |-> TRUE,  symbols |-> FALSE],
    [lowerCase |-> FALSE, upperCase |-> FALSE, numbers |-> FALSE, symbols |-> TRUE],
    [lowerCase |-> FALSE, upperCase |-> TRUE,  numbers |-> TRUE,  symbols |-> FALSE],
    [lowerCase |-> TRUE,  upperCase |-> TRUE,  numbers |-> TRUE,  symbols |-> TRUE] }

ArgumentInputs ==
  { [lowerCase |-> c.lowerCase, upperCase |-> c.upperCase, numbers |-> c.numbers,
     symbols |-> c.symbols, minLength |-> lo, maxLength |-> hi,
     allowDuplicates |-> d, preventRepeatingCharacters |-> p, excludeConfusing |-> e] :
       c \in ClassInputs, lo \in 0..MaxLength, hi \in 0..MaxLength,
       d \in BOOLEAN, p \in BOOLEAN, e \in BOOLEAN }

\* The call up to its loop, for minLength <= maxLength.
InitPassword ==
  /\ args \in {a \in ArgumentInputs : a.minLength <= a.maxLength}
  /\ availableCharacters = initialAvailableCharacters(args)
  /\ passwordLength \in lengthChoices(args)
  /\ char = Nil
  /\ addAfterPick = Nil
  /\ password = <<>>
  /\ gpc = "while"
  /\ TokenizerOff
  /\ TimeStringOff
  /\ MaskOff
  /\ RectOff

\* The array has grown by as many elements as the model follows.
PushesExhausted ==
  Len(availableCharacters) >= Len(initialAvailableCharacters(args)) + MaxPushes

\* One iteration of the loop: a pick when the array has elements, nothing
\* otherwise.
PasswordIteration ==
  /\ gpc = "while"
  /\ loopCondition
  /\ IF Len(availableCharacters) > 0
     THEN \E index \in random(0, Len(availableCharacters) - 1) :
            LET n == pickAt(index)
            IN  /\ Len(n.availableCharacters) <=
                     Len(initialAvailableCharacters(args)) + MaxPushes
                /\ char' = n.char
                /\ password' = n.password
                /\ addAfterPick' = n.addAfterPick
                /\ availableCharacters' = n.availableCharacters
     ELSE UNCHANGED <<char, password, addAfterPick, availableCharacters>>
  /\ UNCHANGED <<args, passwordLength, gpc>>
  /\ UNCHANGED tokVars
  /\ UNCHANGED timeVars
  /\ UNCHANGED maskVars
  /\ UNCHANGED rectVars

\* return password;
ReturnPassword ==
  /\ gpc = "while"
  /\ ~loopCondition
  /\ gpc' = "returned"
  /\ UNCHANGED <<args, availableCharacters, passwordLength, char, addAfterPick, password>>
  /\ UNCHANGED tokVars
  /\ UNCHANGED timeVars
  /\ UNCHANGED maskVars
  /\ UNCHANGED rectVars

NextPassword == PasswordIteration \/ ReturnPassword

SpecPassword == InitPassword /\ [][NextPassword]_vars

\* The loop runs on while it can, and no character that stays in the array
\* is passed over for ever by the random picks.
SpecPasswordFair ==
  /\ SpecPassword
  /\ WF_vars(NextPassword)
  /\ SF_vars(PasswordIteration /\ Len(password') > Len(password))

(***************************************************************************)
(* A rect instance: its construction, then assignments to its properties   *)
(* and calls of set in any order.                                          *)
(***************************************************************************)
CoordinateInputs == {JsNumber(n) : n \in 0..2}

DomRect(top, right, bottom, left) ==
  JsObject([top |-> JsNumber(top), right |-> JsNumber(right),
            bottom |-> JsNumber(bottom), left |-> JsNumber(left),
            x |-> JsNumber(left), y |-> JsNumber(top)])

\* The argument lists of set and of the constructor: six numbers, or one
\* object, the other parameters at their default 0.
SetInputs ==
  { <<top, right, bottom, left, left, top>> :
       top \in CoordinateInputs, right \in CoordinateInputs,
       bottom \in CoordinateInputs, left \in CoordinateInputs }
  \cup { <<o, JsNumber(0), JsNumber(0), JsNumber(0), JsNumber(0), JsNumber(0)>> :
           o \in {DomRect(1, 2, 2, 1), DomRect(0, 2, 2, 0), DomRect(1, 2, 2, 0)} }

\* Coordinates as far as the model follows them.
WithinCoordinates(r) ==
  \A k \in DOMAIN r : r[k].nan \/ (r[k].value >= -MaxCoordinate /\ r[k].value <= MaxCoordinate)

\* new dlib.rect(top, right, bottom, left, x, y)
InitRect ==
  /\ \E a \in SetInputs : rect = set(a[1], a[2], a[3], a[4], a[5], a[6])
  /\ rpc = "constructed"
  /\ TokenizerOff
  /\ TimeStringOff
  /\ MaskOff
  /\ PasswordOff

RectFrame ==
  /\ WithinCoordinates(rect')
  /\ UNCHANGED rpc
  /\ UNCHANGED tokVars
  /\ UNCHANGED timeVars
  /\ UNCHANGED maskVars
  /\ UNCHANGED passVars

AssignLeft ==
  /\ rpc = "constructed"
  /\ \E value \in CoordinateInputs : rect' = setLeft(rect, value)
  /\ RectFrame

AssignRight ==
  /\ rpc = "constructed"
  /\ \E value \in CoordinateInputs : rect' = setRight(rect, value)
  /\ RectFrame

AssignTop ==
  /\ rpc = "constructed"
  /\ \E value \in CoordinateInputs : rect' = setTop(rect, value)
  /\ RectFrame

AssignBottom ==
  /\ rpc = "constructed"
  /\ \E value \in CoordinateInputs : rect' = setBottom(rect, value)
  /\ RectFrame

AssignWidth ==
  /\ rpc = "constructed"
  /\ \E value \in CoordinateInputs : rect' = setWidth(rect, value)
  /\ RectFrame

AssignHeight ==
  /\ rpc = "constructed"
  /\ \E value \in CoordinateInputs : rect' = setHeight(rect, value)
  /\ RectFrame

AssignX ==
  /\ rpc = "constructed"
  /\ \E value \in CoordinateInputs : rect' = setX(rect, value)
  /\ RectFrame

AssignY ==
  /\ rpc = "constructed"
  /\ \E value \in CoordinateInputs : rect' = setY(rect, value)
  /\ RectFrame

CallSet ==
  /\ rpc = "constructed"
  /\ \E a \in SetInputs : rect' = set(a[1], a[2], a[3], a[4], a[5], a[6])
  /\ RectFrame

NextRect ==
  \/ AssignLeft \/ AssignRight \/ AssignTop \/ AssignBottom
  \/ AssignWidth \/ AssignHeight \/ AssignX \/ AssignY \/ CallSet

SpecRect == InitRect /\ [][NextRect]_vars

(***************************************************************************)
(* Either call.                                                            *)
(***************************************************************************)
Init == InitTokenizer \/ InitTimeString \/ InitMask \/ InitPassword \/ InitRect

Next == WhileIteration \/ ReturnFormatArray \/ ToTimeStringCall
          \/ DateFormatToMaskCall \/ NextArguments
          \/ PasswordIteration \/ ReturnPassword \/ NextRect

Spec == Init /\ [][Next]_vars

(***************************************************************************)
(* Claims about dateFormatToArray.                                         *)
(***************************************************************************)
\* The concatenation, in order, of the separator texts and token symbols.
RECURSIVE Reconstruct(_)
Reconstruct(arr) ==
  IF arr = <<>> THEN <<>>
  ELSE (IF IsSeparator(Head(arr)) THEN Head(arr).separator ELSE Head(arr).token)
       \o Reconstruct(Tail(arr))

TokenSet == {tokens[i] : i \in 1..Len(tokens)}

IsPrefix(p, s) == Len(p) <= Len(s) /\ SubSeq(s, 1, Len(p)) = p

\* A string made only of known token symbols and of closed bracketed
\* literals "[...]" (whose text holds no "]").
RECURSIVE IsComposed(_)
IsComposed(s) ==
  \/ s = <<>>
  \/ \E t \in TokenSet : IsPrefix(t, s) /\ IsComposed(SubSeq(s, Len(t) + 1, Len(s)))
  \/ /\ s[1] = "["
     /\ indexOf(s, "]") > 0
     /\ IsComposed(SubSeq(s, indexOf(s, "]") + 2, Len(s)))

\* The string without the "[" and "]" of the bracket escapes a left-to-right
\* scan consumes: a "[" with a "]" after it opens an escape, except directly
\* after an escape, where the next character is kept as it is.
RECURSIVE WithoutEscapeBrackets(_, _)
WithoutEscapeBrackets(s, afterEscape) ==
  IF s = <<>> THEN <<>>
  ELSE IF s[1] = "[" /\ ~afterEscape /\ indexOf(s, "]") > 0
  THEN SubSeq(s, 2, indexOf(s, "]"))
       \o WithoutEscapeBrackets(SubSeq(s, indexOf(s, "]") + 2, Len(s)), TRUE)
  ELSE <<s[1]>> \o WithoutEscapeBrackets(Tail(s), FALSE)

\* C6 as stated: for every format string composed only of closed bracketed
\* literals and known token symbols, the concatenation of the separator texts
\* and token symbols of the result is the format string itself.
C6_RoundTripExact ==
  (pc = "returned" /\ IsComposed(formatArg)) => Reconstruct(formatArray) = formatArg

\* C6 as amended: for such a format string the concatenation is the format
\* string without the "[" and "]" of the bracket escapes the scan consumed,
\* and it is the format string itself exactly when the string holds no
\* bracketed literal.
C6_RoundTripWithoutBrackets ==
  (pc = "returned" /\ IsComposed(formatArg)) =>
     /\ Reconstruct(formatArray) = WithoutEscapeBrackets(formatArg, FALSE)
     /\ (Reconstruct(formatArray) = formatArg) <=> (indexOf(formatArg, "[") = -1)

C6_Witness ==
  /\ pc = "returned"
  /\ formatArg = <<"[", "o", "]", "M", "M">>
  /\ IsComposed(formatArg)
  /\ Reconstruct(formatArray) = <<"o", "M", "M">>

\* The text the token match of one iteration starts at: the text after the
\* bracket escape the iteration consumed, the whole text otherwise.
ScanRest(fmt) ==
  IF fmt # <<>> /\ fmt[1] = "[" /\ indexOf(fmt, "]") > 0
  THEN SubSeq(fmt, indexOf(fmt, "]") + 2, Len(fmt))
  ELSE fmt

\* The elements emitted before the token match of one iteration.
ScanBase(fmt, arr) ==
  IF fmt # <<>> /\ fmt[1] = "[" /\ indexOf(fmt, "]") > 0
  THEN Append(arr, Separator(SubSeq(fmt, 2, indexOf(fmt, "]"))))
  ELSE arr

SymbolPrefixes(s) == {t \in TokenSet : IsPrefix(t, s)}

LongestSymbolPrefix(s) ==
  CHOOSE t \in SymbolPrefixes(s) : \A u \in SymbolPrefixes(s) : Len(u) <= Len(t)

\* C7: at every scan position where some table symbol is a prefix of the
\* remaining input, the iteration emits as Token the longest such symbol and
\* advances by its length; input "MM" returns the single element Token("MM").
C7_LongestMatch ==
  [][ /\ (pc = "while" /\ Len(format) > 0 /\ SymbolPrefixes(ScanRest(format)) # {}) =>
           LET rest == ScanRest(format)
               sym  == LongestSymbolPrefix(rest)
           IN  /\ formatArray' = Append(ScanBase(format, formatArray), Token(sym))
               /\ format' = SubSeq(rest, Len(sym) + 1, Len(rest))
      /\ (pc' = "returned" /\ formatArg = <<"M", "M">>) =>
           formatArray' = <<Token(<<"M", "M">>)>>
    ]_vars

C7_Witness ==
  /\ pc = "returned"
  /\ formatArg = <<"M", "M">>
  /\ formatArray = <<Token(<<"M", "M">>)>>

Str_Year == <<"[","Y","e","a","r","]",":"," ","Y","Y","Y","Y">>

\* C8 as stated: dateFormatToArray("[Year]: YYYY") is the three elements
\* Literal "Year", Literal ": ", Token "YYYY".
C8_ThreeElements ==
  (pc = "returned" /\ formatArg = Str_Year) =>
     formatArray = << Separator(<<"Y","e","a","r">>),
                      Separator(<<":"," ">>),
                      Token(<<"Y","Y","Y","Y">>) >>

\* C8 as amended: dateFormatToArray("[Year]: YYYY") is the two elements
\* Literal "Year: ", Token "YYYY": the characters after the bracket escape
\* are appended to its Literal.
C8_TwoElements ==
  (pc = "returned" /\ formatArg = Str_Year) =>
     formatArray = << Separator(<<"Y","e","a","r",":"," ">>),
                      Token(<<"Y","Y","Y","Y">>) >>

C8_Witness ==
  /\ pc = "returned"
  /\ formatArg = Str_Year
  /\ Len(formatArray) = 2

\* C9: every iteration of the scan loop consumes at least one character, and
\* the call returns, with the input exhausted, for every input string.
C9_ProgressAndTermination ==
  /\ [][(pc = "while" /\ Len(format) > 0) => Len(format') < Len(format)]_vars
  /\ [][pc' = "returned" => (format' = <<>> /\ formatArray' = formatArray)]_vars
  /\ <>(pc = "returned")

C9_Witness ==
  /\ pc = "returned"
  /\ formatArg = <<"[", "M", "]", "[", "o">>
  /\ format = <<>>
  /\ Len(formatArray) = 1

TokensOf(arr) == SelectSeq(arr, IsToken)

\* C10: a "[" met at a scan position with no "]" after it is emitted as one
\* character of literal text, appended to the last Literal or starting a new
\* one, and the scan goes on at the next character, where symbols are still
\* matched: the Tokens of "[" followed by a text without "]" are those of the
\* text alone.
C10_UnclosedBracket ==
  [][ /\ ( /\ pc = "while"
           /\ ScanRest(format) # <<>>
           /\ ScanRest(format)[1] = "["
           /\ indexOf(ScanRest(format), "]") = -1 ) =>
           LET rest == ScanRest(format)
               base == ScanBase(format, formatArray)
               n    == Len(base)
           IN  /\ format' = Tail(rest)
               /\ \/ formatArray' = Append(base, Separator(<<"[">>))
                  \/ /\ n > 0
                     /\ IsSeparator(base[n])
                     /\ formatArray' =
                          [base EXCEPT ![n] = Separator(base[n].separator \o <<"[">>)]
      /\ ( /\ pc' = "returned"
           /\ formatArg # <<>>
           /\ formatArg[1] = "["
           /\ indexOf(formatArg, "]") = -1 ) =>
           TokensOf(formatArray') = TokensOf(dateFormatToArray(Tail(formatArg)))
    ]_vars

C10_Witness ==
  /\ pc = "returned"
  /\ formatArg = <<"o", "[", "M", "M">>
  /\ formatArray = <<Separator(<<"o", "[">>), Token(<<"M", "M">>)>>

\* C11: dateFormatToArray("") returns an empty sequence.
C11_EmptyInputEmptySequence ==
  (pc = "returned" /\ formatArg = <<>>) => formatArray = <<>>

C11_Witness ==
  /\ pc = "returned"
  /\ formatArg = <<>>
  /\ format = <<>>
  /\ formatArray = <<>>

\* The text starts with a "[" that has a "]" after it.
OpensEscape(s) == s # <<>> /\ s[1] = "[" /\ indexOf(s, "]") > 0

\* From the text s and the elements base, the step has emitted the text
\* between the brackets as a separator of its own (an unrecognized character
\* after the "]" may have joined it) and has consumed both brackets.
EscapeTaken(s, base, nextFormat, nextArray) ==
  /\ Len(nextArray) > Len(base)
  /\ SubSeq(nextArray, 1, Len(base)) = base
  /\ IsSeparator(nextArray[Len(base) + 1])
  /\ IsPrefix(SubSeq(s, 2, indexOf(s, "]")), nextArray[Len(base) + 1].separator)
  /\ Len(nextFormat) <= Len(s) - indexOf(s, "]") - 1

C26_OnlyEscapeBracketsRemoved ==
  /\ Reconstruct(formatArray) \o WithoutEscapeBrackets(format, FALSE)
       = WithoutEscapeBrackets(formatArg, FALSE)
  /\ pc = "returned" =>
       Reconstruct(formatArray) = WithoutEscapeBrackets(formatArg, FALSE)

C26_Witness ==
  /\ pc = "returned"
  /\ formatArg = <<"[", "a", "]", "[", "M", "M", "]">>
  /\ Reconstruct(formatArray) = <<"a", "[", "M", "M", "]">>

(***************************************************************************)
(* Claims about toTimeString.                                              *)
(***************************************************************************)
\* The policy a call works with: the object passed, over the defaults.
EffectivePolicy == givenPolicy

ValidPolicy ==
  /\ optionsArg # "null"
  /\ \A k \in ShowKeys : EffectivePolicy[k] \in ShowValues

Str_1_01_01_01 == <<"1", ":", "0", "1", ":", "0", "1", ":", "0", "1">>

\* C1: with showDays = "nonZero" and a magnitude of at least 86,400,000 ms the
\* days lead and the hours below them are taken modulo 24;
\* toTimeString(-90061000) with the defaults is "-1:01:01:01".
C1_DaysLeadWhenNonZero ==
  ( /\ tpc = "returned"
    /\ number.kind = "number"
    /\ ValidPolicy
    /\ EffectivePolicy.showDays = "nonZero"
    /\ number.whole >= 86400000 ) =>
       /\ leader = "days"
       /\ (number = Num(TRUE, 90061000, FALSE)
           /\ EffectivePolicy = toTimeStringDefaultsInitial) =>
             result = StringResult(<<"-">> \o Str_1_01_01_01)

UnitSize(key) ==
  CASE key = "showDays"         -> 1000 * 60 * 60 * 24
    [] key = "showHours"        -> 1000 * 60 * 60
    [] key = "showMinutes"      -> 1000 * 60
    [] key = "showSeconds"      -> 1000
    [] key = "showMilliseconds" -> 1

UnitModulus(key) ==
  CASE key = "showHours"        -> 24
    [] key = "showMinutes"      -> 60
    [] key = "showSeconds"      -> 60
    [] key = "showMilliseconds" -> 1000

LeaderKey(l) ==
  CASE l = "days"         -> "showDays"
    [] l = "hours"        -> "showHours"
    [] l = "minutes"      -> "showMinutes"
    [] l = "seconds"      -> "showSeconds"
    [] l = "milliseconds" -> "showMilliseconds"

UnitOrder == <<"showDays", "showHours", "showMinutes", "showSeconds", "showMilliseconds">>

UnitIndex(key) == CHOOSE i \in 1..5 : UnitOrder[i] = key

\* The units below a leader, most significant first.
UnitsBelow(l) == SubSeq(UnitOrder, UnitIndex(LeaderKey(l)) + 1, 5)

\* A unit below the leader as displayed: ":" and two digits, "." and three
\* for the milliseconds.
UnitText(key, whole) ==
  LET v == (whole \div UnitSize(key)) % UnitModulus(key)
  IN  IF key = "showMilliseconds"
      THEN <<".">> \o padStart(toString(v), 3)
      ELSE <<":">> \o padStart(toString(v), 2)

\* The text below the leader when each unit is shown by its own policy alone.
RECURSIVE TailByOwnPolicy(_, _, _)
TailByOwnPolicy(units, pol, whole) ==
  IF units = <<>> THEN <<>>
  ELSE (IF pol[Head(units)] # "never" THEN UnitText(Head(units), whole) ELSE <<>>)
       \o TailByOwnPolicy(Tail(units), pol, whole)

\* The text below the leader when a unit is shown only if neither it nor a
\* unit between the leader and it is set to "never".
RECURSIVE TailUntilNever(_, _, _)
TailUntilNever(units, pol, whole) ==
  IF units = <<>> \/ pol[Head(units)] = "never" THEN <<>>
  ELSE UnitText(Head(units), whole) \o TailUntilNever(Tail(units), pol, whole)

Unsigned(text) == IF text # <<>> /\ text[1] = "-" THEN Tail(text) ELSE text

WithoutChar(text, ch) == SelectSeq(text, LAMBDA c : c # ch)

\* The text is the numeral of value, grouped or not, padded to two or not.
IsLeadNumeral(text, value) ==
  \E sep \in {",", "."} :
     WithoutChar(text, sep) \in {toString(value), padStart(toString(value), 2)}

\* The result is the leader's numeral followed by exactly the text tail.
EndsWithTail(tail) ==
  LET body == Unsigned(result.value)
      cut  == Len(body) - Len(tail)
  IN  /\ cut >= 1
      /\ SubSeq(body, cut + 1, Len(body)) = tail
      /\ IsLeadNumeral(SubSeq(body, 1, cut), number.whole \div UnitSize(LeaderKey(leader)))

LeaderChosen ==
  /\ tpc = "returned"
  /\ result.type = "string"
  /\ ValidPolicy
  /\ leader \in {"days", "hours", "minutes", "seconds"}

C3_UndefinedAndUntouched ==
  [][ (tpc = "ready" /\ number.kind # "number") =>
        /\ result' = Undefined
        /\ options' = options
        /\ toTimeStringDefaults' = toTimeStringDefaults ]_vars

C3_Witness ==
  /\ tpc = "returned"
  /\ number.kind = "Infinity"
  /\ optionsArg = "object"
  /\ options = [padSeconds |-> TRUE]
  /\ result = Undefined

\* C4: for every finite number and every policy whose show fields are each
\* always, nonZero or never, the call returns a non-empty string and does
\* not throw.
C4_NonEmptyString ==
  (tpc = "returned" /\ number.kind = "number" /\ ValidPolicy) =>
     /\ result.type = "string"
     /\ result.value # <<>>

C4_Witness ==
  /\ tpc = "returned"
  /\ number = Num(TRUE, 0, TRUE)
  /\ ValidPolicy
  /\ EffectivePolicy.showSeconds = "never"
  /\ EffectivePolicy.showMilliseconds = "never"
  /\ result = StringResult(<<"-", "0">>)

\* C5: for every n > 0 and every policy, toTimeString(-n, policy) is "-"
\* followed by toTimeString(n, policy).
C5_NegativeIsMinusPositive ==
  [][ (tpc = "ready" /\ number.kind = "number" /\ number.neg /\ ValidPolicy) =>
        LET positive == toTimeString([number EXCEPT !.neg = FALSE], boundOptions,
                                     FALSE, toTimeStringDefaults, locale)
        IN  /\ positive.result.type = "string"
            /\ result' = StringResult(<<"-">> \o positive.result.value) ]_vars

C5_Witness ==
  /\ tpc = "returned"
  /\ number = Num(TRUE, 61000, FALSE)
  /\ EffectivePolicy = toTimeStringDefaultsInitial
  /\ result = StringResult(<<"-", "1", ":", "0", "1">>)

\* C13: when no unit from days to seconds leads, the result is "0" when the
\* milliseconds policy is never, or nonZero with a millisecond value of 0,
\* and otherwise "0." followed by exactly three digits, the millisecond
\* component; toTimeString(500) is "0" with the defaults and "0.500" with
\* showMilliseconds "always".
C13_MillisecondsFallback ==
  ( /\ tpc = "returned"
    /\ number.kind = "number"
    /\ ValidPolicy
    /\ leader = "milliseconds" ) =>
       LET x   == number.whole % 1000
           pol == EffectivePolicy.showMilliseconds
       IN  Unsigned(result.value) =
             IF pol = "never" \/ (pol = "nonZero" /\ x = 0)
             THEN <<"0">>
             ELSE <<"0", ".">> \o padStart(toString(x), 3)

PadKey(l) ==
  CASE l = "days"    -> "padDays"
    [] l = "hours"   -> "padHours"
    [] l = "minutes" -> "padMinutes"
    [] l = "seconds" -> "padSeconds"

\* The numeral of the leading unit in the result: what precedes the units
\* below the leader.
LeadNumeral ==
  LET body == Unsigned(result.value)
      tail == TailUntilNever(UnitsBelow(leader), EffectivePolicy, number.whole)
  IN  SubSeq(body, 1, Len(body) - Len(tail))

\* C14: when days, hours, minutes or seconds lead and the pad flag of the
\* leading unit is true, its numeral is left-padded with "0" to width 2;
\* toTimeString(5000, {padSeconds: true}) renders the seconds as "05".
C14_LeaderPadded ==
  (LeaderChosen /\ flag(EffectivePolicy, PadKey(leader))) =>
     LET value == number.whole \div UnitSize(LeaderKey(leader))
     IN  /\ Len(LeadNumeral) >= 2
         /\ value < 10 => LeadNumeral = <<"0">> \o toString(value)

\* C15: a call of toTimeString leaves the caller's options object as it was:
\* no field is added to it or modified in it.
C15_OptionsUnchanged ==
  [][tpc = "ready" => options' = options]_vars

\* C16: after any sequence of earlier calls, with the same options object
\* passed again or with other options, a call with a given duration and a
\* given policy returns what the first such call returned.
C16_SameArgumentsSameResult ==
  \A a \in history : \A b \in history :
     (a.number = b.number /\ a.policy = b.policy) => a.result = b.result

C16_Witness ==
  /\ calls = 3
  /\ tpc = "returned"
  /\ optionsArg = "omitted"
  /\ number = Num(FALSE, 500, FALSE)
  /\ result = StringResult(<<"0">>)
  /\ \E h \in history :
        /\ h.number = number
        /\ h.policy.showMilliseconds = "always"
        /\ h.result = StringResult(<<"0", ".", "5", "0", "0">>)
  /\ Cardinality(history) = 2

\* The rule of C17 for one unit: its policy is always, or it is nonZero and
\* the whole magnitude counted in that unit is above zero.
PassesLeaderTest(key) ==
  \/ EffectivePolicy[key] = "always"
  \/ (EffectivePolicy[key] = "nonZero" /\ number.whole \div UnitSize(key) > 0)

ExpectedLeader ==
  IF PassesLeaderTest("showHours") THEN "hours"
  ELSE IF PassesLeaderTest("showMinutes") THEN "minutes"
  ELSE IF PassesLeaderTest("showSeconds") THEN "seconds"
  ELSE "milliseconds"

\* C17: when the days do not lead, the leader is the first of hours, minutes
\* and seconds whose policy is always, or nonZero with a whole magnitude in
\* that unit above zero; the result starts with the leader's numeral, the
\* whole magnitude in that unit, so that no unit above it appears; the
\* milliseconds fallback ("0" first) is taken only if none of the three passes.
C17_FirstPassingUnitLeads ==
  ( /\ tpc = "returned"
    /\ number.kind = "number"
    /\ ValidPolicy
    /\ leader # "days" ) =>
       /\ result.type = "string"
       /\ leader = ExpectedLeader
       /\ leader # "milliseconds" =>
            EndsWithTail(TailUntilNever(UnitsBelow(leader), EffectivePolicy, number.whole))
       /\ leader = "milliseconds" =>
            LET body == Unsigned(result.value)
            IN  /\ body[1] = "0"
                /\ Len(body) > 1 => body[2] = "."

C17_Witness ==
  /\ tpc = "returned"
  /\ number = Num(FALSE, 61000, FALSE)
  /\ EffectivePolicy.showDays = "nonZero"
  /\ EffectivePolicy.showHours = "nonZero"
  /\ EffectivePolicy.showMinutes = "nonZero"
  /\ leader = "minutes"
  /\ result = StringResult(<<"1", ":", "0", "1">>)

DigitSet == {DigitChars[i] : i \in 1..Len(DigitChars)}

\* The units displayed below the leader, most significant first.
RECURSIVE UntilNever(_, _)
UntilNever(units, pol) ==
  IF units = <<>> \/ pol[Head(units)] = "never" THEN <<>>
  ELSE <<Head(units)>> \o UntilNever(Tail(units), pol)

UnitPrefix(key) == IF key = "showMilliseconds" THEN "." ELSE ":"

UnitWidth(key) == IF key = "showMilliseconds" THEN 3 ELSE 2

\* A numeral with nothing before it: digits, grouped or not, a digit first
\* and last.
IsBareNumeral(text) ==
  /\ text # <<>>
  /\ text[1] \in DigitSet
  /\ text[Len(text)] \in DigitSet
  /\ \A i \in 1..Len(text) : text[i] \in DigitSet \cup {",", "."}

\* The text is a bare numeral followed by one group per unit: the prefix of
\* the unit, once, between two digits, and the digits of the unit.
RECURSIVE HasUnitShape(_, _)
HasUnitShape(text, units) ==
  IF units = <<>> THEN IsBareNumeral(text)
  ELSE LET key == units[Len(units)]
           w   == UnitWidth(key)
           n   == Len(text)
       IN  /\ n >= w + 2
           /\ \A i \in (n - w + 1)..n : text[i] \in DigitSet
           /\ text[n - w] = UnitPrefix(key)
           /\ text[n - w - 1] \in DigitSet
           /\ HasUnitShape(SubSeq(text, 1, n - w - 1),
                           SubSeq(units, 1, Len(units) - 1))

\* C20: in every result each unit displayed after the leader is preceded by
\* exactly one ":", the milliseconds by exactly one "."; the leader's numeral
\* comes first with nothing before it but "-" for a negative number.  In the
\* milliseconds fallback the "0" comes first and the milliseconds, when
\* displayed, follow one ".".
C20_UnitPrefixes ==
  ( /\ tpc = "returned"
    /\ number.kind = "number"
    /\ ValidPolicy ) =>
       LET text == result.value
           body == Unsigned(text)
       IN  /\ result.type = "string"
           /\ (text[1] = "-") <=> number.neg
           /\ leader # "milliseconds" =>
                HasUnitShape(body, UntilNever(UnitsBelow(leader), EffectivePolicy))
           /\ leader = "milliseconds" =>
                /\ \A i \in 1..Len(body) : body[i] # ":"
                /\ \/ body = <<"0">>
                   \/ /\ Len(body) >= 3
                      /\ body[1] = "0"
                      /\ body[2] = "."
                      /\ body[3] \in DigitSet

C20_Witness ==
  /\ tpc = "returned"
  /\ number = Num(TRUE, 90061000, FALSE)
  /\ leader = "days"
  /\ UntilNever(UnitsBelow(leader), EffectivePolicy) =
       <<"showHours", "showMinutes", "showSeconds", "showMilliseconds">>
  /\ result = StringResult(<<"-", "1", ":", "0", "1", ":", "0", "1", ":", "0", "1",
                             ".", "0", "0", "0">>)

DigitValue(c) == CHOOSE d \in 0..9 : DigitChars[d + 1] = c

\* The number a text of digits denotes.
RECURSIVE ParseDigits(_)
ParseDigits(text) ==
  IF text = <<>> THEN 0
  ELSE 10 * ParseDigits(SubSeq(text, 1, Len(text) - 1)) + DigitValue(text[Len(text)])

\* The length of the groups of the units: a prefix and the digits, each.
RECURSIVE GroupsLen(_)
GroupsLen(units) ==
  IF units = <<>> THEN 0
  ELSE 1 + UnitWidth(Head(units)) + GroupsLen(Tail(units))

\* The digits of the i-th unit displayed below the leader, read off the text.
DisplayedDigits(text, units, i) ==
  LET after == GroupsLen(SubSeq(units, i + 1, Len(units)))
  IN  SubSeq(text, Len(text) - after - UnitWidth(units[i]) + 1, Len(text) - after)

\* The value of a unit as computed from n alone.
ValueFromInput(key, n) ==
  CASE key = "showHours"        -> (n \div 3600000) % 24
    [] key = "showMinutes"      -> (n \div 60000) % 60
    [] key = "showSeconds"      -> (n \div 1000) % 60
    [] key = "showMilliseconds" -> n % 1000

\* C21: for a non-negative integer n, every unit displayed below the leader
\* shows floor(n / 3,600,000) mod 24, floor(n / 60,000) mod 60,
\* floor(n / 1,000) mod 60 or n mod 1,000, whichever units lead or are
\* displayed above it.
C21_UnitsFromInput ==
  ( /\ LeaderChosen
    /\ number.kind = "number"
    /\ ~number.neg
    /\ ~number.half ) =>
       LET units == UntilNever(UnitsBelow(leader), EffectivePolicy)
       IN  /\ Len(result.value) > GroupsLen(units)
           /\ \A i \in 1..Len(units) :
                LET digits == DisplayedDigits(result.value, units, i)
                IN  /\ \A j \in 1..Len(digits) : digits[j] \in DigitSet
                    /\ ParseDigits(digits) = ValueFromInput(units[i], number.whole)

C21_Witness ==
  /\ tpc = "returned"
  /\ number = Num(FALSE, 3661000, FALSE)
  /\ leader = "minutes"
  /\ UntilNever(UnitsBelow(leader), EffectivePolicy) = <<"showSeconds", "showMilliseconds">>
  /\ result = StringResult(<<"6", "1", ":", "0", "1", ".", "0", "0", "0">>)

\* The policy with the four pad flags as given.
WithPadFlags(pol, value) ==
  [k \in DOMAIN pol |->
     IF k \in {"padDays", "padHours", "padMinutes", "padSeconds"} THEN value ELSE pol[k]]

\* The last n characters of a text.
Suffix(text, n) == SubSeq(text, Len(text) - n + 1, Len(text))

\* C27: every unit displayed below the leader is padded with zeros, hours,
\* minutes and seconds to width 2 and milliseconds to width 3, whatever the
\* pad flags: the text below the leader is what the call gives with all four
\* flags off and with all four on.
C27_LowerUnitsAlwaysPadded ==
  LeaderChosen =>
     LET units == UntilNever(UnitsBelow(leader), EffectivePolicy)
         n     == GroupsLen(units)
         text  == result.value
         with(value) == toTimeString(number, WithPadFlags(EffectivePolicy, value), FALSE,
                                     toTimeStringDefaultsInitial, locale).result.value
     IN  /\ \A i \in 1..Len(units) :
              DisplayedDigits(text, units, i) =
                padStart(toString(ValueFromInput(units[i], number.whole)),
                         UnitWidth(units[i]))
         /\ Suffix(text, n) = Suffix(with(FALSE), n)
         /\ Suffix(text, n) = Suffix(with(TRUE), n)

C27_Witness ==
  /\ tpc = "returned"
  /\ number = Num(FALSE, 3661000, FALSE)
  /\ leader = "hours"
  /\ ~flag(EffectivePolicy, "padMinutes")
  /\ ~flag(EffectivePolicy, "padSeconds")
  /\ result = StringResult(<<"1", ":", "0", "1", ":", "0", "1">>)

\* The value of the leader's numeral as the result shows it: the digits
\* before the units below the leader, the grouping characters left out.
LeaderValueShown ==
  LET body  == Unsigned(result.value)
      units == UntilNever(UnitsBelow(leader), EffectivePolicy)
      lead  == SubSeq(body, 1, Len(body) - GroupsLen(units))
  IN  ParseDigits(SelectSeq(lead, LAMBDA c : c \in DigitSet))

\* The units shown below the leader, each value times the size of its unit.
RECURSIVE LowerUnitsTotal(_, _, _)
LowerUnitsTotal(text, units, i) ==
  IF i > Len(units) THEN 0
  ELSE ParseDigits(DisplayedDigits(text, units, i)) * UnitSize(units[i])
       + LowerUnitsTotal(text, units, i + 1)

\* C28: the leading unit shows the whole magnitude in its unit,
\* floor(n / unit size), not reduced modulo the next unit up (hours above 23,
\* minutes or seconds above 59), and when no unit below the leader is
\* suppressed the leader's value times its unit size plus the values of the
\* units below is floor(n).
C28_LeaderCarriesWhole ==
  LeaderChosen =>
     LET units == UntilNever(UnitsBelow(leader), EffectivePolicy)
     IN  /\ LeaderValueShown = number.whole \div UnitSize(LeaderKey(leader))
         /\ units = UnitsBelow(leader) =>
              LeaderValueShown * UnitSize(LeaderKey(leader))
                + LowerUnitsTotal(result.value, units, 1) = number.whole

C28_Witness ==
  /\ tpc = "returned"
  /\ number = Num(FALSE, 90061000, FALSE)
  /\ leader = "hours"
  /\ UntilNever(UnitsBelow(leader), EffectivePolicy) = UnitsBelow(leader)
  /\ LeaderValueShown = 25
  /\ result = StringResult(<<"2", "5", ":", "0", "1", ":", "0", "1", ".", "0", "0", "0">>)

\* C29: no sequence of toTimeString calls modifies the shared
\* toTimeStringDefaults object, the options argument omitted, a partial
\* object or the defaults object itself: it stays as the module set it, and
\* no call changes it.
C29_DefaultsNeverModified ==
  /\ [][toTimeStringDefaults' = toTimeStringDefaults]_vars
  /\ [](toTimeStringDefaults = toTimeStringDefaultsInitial)

C29_Witness ==
  /\ calls = 3
  /\ tpc = "returned"
  /\ optionsArg = "defaults"
  /\ result.type = "string"
  /\ \E h \in history : h.policy.showMilliseconds = "always"
  /\ \E h \in history : h.policy.padDays
  /\ toTimeStringDefaults = toTimeStringDefaultsInitial

(***************************************************************************)
(* Claims about dateFormatToMask.                                          *)
(***************************************************************************)
\* The symbols of the table that the switch of dateFormatToMask has no case for.
UnmappedSymbols == {<<"Y">>, <<"G","G">>, <<"G","G","G","G">>, <<"Z","Z">>}

HasUnmappedToken(fmt) ==
  \E i \in 1..Len(dateFormatToArray(fmt)) :
     /\ IsToken(dateFormatToArray(fmt)[i])
     /\ dateFormatToArray(fmt)[i].token \in UnmappedSymbols

\* C12: on a Token whose symbol the placeholder mapping has no entry for,
\* dateFormatToMask completes without throwing and the mask holds the symbol
\* name as literal text at that position.
C12_UnmappedSymbolAsText ==
  (mpc = "returned" /\ HasUnmappedToken(maskFormat)) =>
     /\ mask.type = "mask"
     /\ (maskFormat = <<"Y">>) => mask.value = <<Text(<<"Y">>)>>
     /\ (maskFormat = <<"G","G">>) => mask.value = <<Text(<<"G","G">>)>>

\* The items are, segment by segment and in order, one string equal to the
\* text of a separator, and one or more regular expressions for a token.
RECURSIVE ContributionsInOrder(_, _)
ContributionsInOrder(arr, items) ==
  IF arr = <<>> THEN items = <<>>
  ELSE IF IsSeparator(Head(arr))
  THEN /\ items # <<>>
       /\ items[1] = Text(Head(arr).separator)
       /\ ContributionsInOrder(Tail(arr), Tail(items))
  ELSE \E k \in 1..Len(items) :
          /\ \A i \in 1..k : IsRegex(items[i])
          /\ ContributionsInOrder(Tail(arr), SubSeq(items, k + 1, Len(items)))

\* C22: a mask returned by dateFormatToMask is the in-order flattening of one
\* contribution per segment of the tokenizer: exactly one element equal to
\* its text for a Literal, only placeholders for a mapped Token.
C22_SegmentOrderKept ==
  (mpc = "returned" /\ mask.type = "mask") =>
     ContributionsInOrder(dateFormatToArray(maskFormat), mask.value)

C22_Witness ==
  /\ mpc = "returned"
  /\ maskFormat = <<"[","Y","e","a","r","]",":"," ","Y","Y","Y","Y">>
  /\ mask = MaskResult(<<Text(<<"Y","e","a","r",":"," ">>), Digit, Digit, Digit, Digit>>)

\* C23: each mapped token gets the number of placeholders written in its
\* case: two digits for M, MM, D, DD, H, HH, m, mm, s and ss, four digits for
\* YYYY, three letters for MMM and ddd, two letters for dd.
C23_PlaceholdersAsWritten ==
  (mpc = "returned") =>
     /\ maskFormat \in {<<"M">>, <<"M","M">>} => mask = MaskResult(<<Digit, Digit>>)
     /\ maskFormat = <<"Y","Y","Y","Y">> => mask = MaskResult(<<Digit, Digit, Digit, Digit>>)
     /\ maskFormat \in {<<"M","M","M">>, <<"d","d","d">>} =>
          mask = MaskResult(<<Letter, Letter, Letter>>)
     /\ maskFormat = <<"d","d">> => mask = MaskResult(<<Letter, Letter>>)
     /\ maskFormat = <<"H","H",":","m","m",":","s","s"," ","A">> =>
          SubSeq(mask.value, 1, 8) =
            <<Digit, Digit, Text(<<":">>), Digit, Digit, Text(<<":">>), Digit, Digit>>

(***************************************************************************)
(* Claims about generatePassword.                                          *)
(***************************************************************************)
\* C24: with preventRepeatingCharacters = true the password returned never
\* holds two equal characters next to each other, whatever the random picks,
\* picks of an already blanked slot included.
C24_NoRepeatedCharacter ==
  (gpc = "returned" /\ args.preventRepeatingCharacters) =>
     \A i \in 1..(Len(password) - 1) : password[i] # password[i + 1]

\* C25: under fair random choice the call returns for every combination of
\* arguments (as far as the model follows the growth of the array), with no
\* character class enabled and with allowDuplicates = false and more
\* characters asked for than are available too, and the password returned
\* has the chosen length, which lies between minLength and maxLength.
C25_ReturnsWithChosenLength ==
  /\ <>(gpc = "returned" \/ PushesExhausted)
  /\ [](gpc = "returned" =>
          /\ Len(password) = passwordLength
          /\ args.minLength <= passwordLength
          /\ passwordLength <= args.maxLength)

(***************************************************************************)
(* Claims about rect.                                                      *)
(***************************************************************************)
\* C30: after construction and after any sequence of assignments to left,
\* right, top, bottom, width, height, x and y and of calls to set, width
\* equals right - left and height equals bottom - top.
C30_WidthAndHeightDerived ==
  rpc = "constructed" =>
     /\ strictEquals(rect._width, minus(rect._right, rect._left))
     /\ strictEquals(rect._height, minus(rect._bottom, rect._top))

====
